---- MODULE Spec2Model ----
(***************************************************************************)
(* A model of quzi.py: the sqlite-backed deck/card repository (class       *)
(* Model), its JSON export/import, and the study session (App.start_study  *)
(* and class StudyWindow).                                                 *)
(*                                                                         *)
(* The store is the two tables of init_db.  A table is a function from the *)
(* rowids in use to rows.  created_at columns and the exported_at field    *)
(* hold wall-clock timestamps that no operation reads back; they are left  *)
(* out of the rows.                                                        *)
(***************************************************************************)
EXTENDS Integers, Sequences, FiniteSets, TLC

\* ------------------------------------------------------------------ bounds
MaxDeckId == 2
MaxCardId == 2
MaxSeen == 2
MaxEntries == 3
MaxMarks == 5

DeckIds == 1 .. MaxDeckId
CardIds == 1 .. MaxCardId

\* The (front, back) pairs a caller passes, and the deck names a caller passes.
Sides == {<<"a", "">>, <<"", "a">>}
DeckNames == {"n", "m"}

\* SQL NULL in a TEXT column (Python None), kept apart from every text.
Null == "<NULL>"

\* The name import_deck_json makes up when the payload has none (line 106).
DefaultName == "Deck <utc-now>"

\* ------------------------------------------------------------------ state
VARIABLES
    decks,        \* table decks: id -> [name]
    cards,        \* table cards: id -> [deck_id, front, back, correct_count, seen_count]
    last,         \* the most recent call: [op, id, flag, ok, out]
    study_queue,  \* App.study_queue
    win,          \* the StudyWindow: "none", "open", "done" (destroyed by next_card), "closed"
    queue,        \* StudyWindow.queue
    current,      \* StudyWindow.current: <<>> is None, <<e>> is entry e
    back_shown,   \* StudyWindow.back_shown
    label,        \* the text of StudyWindow.front_lbl
    marks,        \* history: calls of mark that passed its guard
    incorrect,    \* history: those of them with correct = FALSE
    corrects,     \* history: ids of the entries marked correct
    cards0,       \* history: table cards as it was when the session started
    other         \* a second StudyWindow: [win, queue, current, back_shown, label]

store == <<decks, cards>>
session == <<study_queue, win, queue, current, back_shown, label, marks, incorrect, corrects, cards0, other>>
vars == <<decks, cards, last, study_queue, win, queue, current, back_shown, label, marks, incorrect, corrects, cards0, other>>

\* ------------------------------------------------------------------ helpers
Max(S) == CHOOSE x \in S : \A y \in S : y <= x
Min(S) == CHOOSE x \in S : \A y \in S : x <= y

RECURSIVE Ascending(_)
\* The elements of a finite set of integers in ascending order (ORDER BY id).
Ascending(S) == IF S = {} THEN <<>> ELSE <<Min(S)>> \o Ascending(S \ {Min(S)})

\* INTEGER PRIMARY KEY without AUTOINCREMENT: sqlite gives a new row the
\* largest rowid in the table plus one, 1 in an empty table.
NextRowId(table) == IF DOMAIN table = {} THEN 1 ELSE Max(DOMAIN table) + 1

\* A table with row r stored under rowid id.
Insert(table, id, r) == [i \in DOMAIN table \cup {id} |-> IF i = id THEN r ELSE table[i]]

\* A table without the rows whose id is in gone.
Delete(table, gone) == [i \in DOMAIN table \ gone |-> table[i]]

\* JSON values: objects are records, arrays are sequences, the rest is tagged.
JStr(s) == [t |-> "str", v |-> s]
JNum(n) == [t |-> "num", v |-> n]
JNull == [t |-> "null"]
JObj(r) == [t |-> "obj", v |-> r]
JArr(s) == [t |-> "arr", v |-> s]

\* json.dump of a column value: NULL is null, a text is a string.
ToJson(v) == IF v = Null THEN JNull ELSE JStr(v)

\* json.load of a value, as bound to a TEXT column: null is NULL.
FromJson(j) == IF j.t = "null" THEN Null ELSE j.v

\* dict.get(key, default) on a JSON object.
Get(obj, key, default) == IF key \in DOMAIN obj.v THEN obj.v[key] ELSE default

\* The most recent call, kept as history: its name, the id of the row it
\* addressed or created (0 when no row has the id it was given), a flag,
\* whether it returned normally, and what it wrote to its file.  The flag is
\* the argument correct of record_result and mark; for delete_deck, whether
\* the deck id had cards; for update_card, whether a row changed; for
\* import_deck_json, whether the file read is the one just exported.
NoCall == [op |-> "none", id |-> 0, flag |-> FALSE, ok |-> TRUE, out |-> JNull]
Call(op, id, flag, ok, out) == [op |-> op, id |-> id, flag |-> flag, ok |-> ok, out |-> out]
Target(table, id) == IF id \in DOMAIN table THEN id ELSE 0

\* ------------------------------------------------------------------ queries
\* Model.all_decks: the (id, name) rows.  The rows come back ordered by name;
\* only which rows come back is modelled.
all_decks == {<<d, decks[d].name>> : d \in DOMAIN decks}

CardRow(table, c) ==
    [id |-> c, front |-> table[c].front, back |-> table[c].back,
     correct_count |-> table[c].correct_count, seen_count |-> table[c].seen_count]

SelectCards(table, deck_id) ==
    LET ids == Ascending({c \in DOMAIN table : table[c].deck_id = deck_id})
    IN [i \in 1 .. Len(ids) |-> CardRow(table, ids[i])]

\* Model.cards_in_deck
cards_in_deck(deck_id) == SelectCards(cards, deck_id)

\* ------------------------------------------------------------------ repository
\* Model.add_deck: INSERT INTO decks, commit, return lastrowid.
add_deck(name) ==
    /\ NextRowId(decks) <= MaxDeckId
    /\ decks' = Insert(decks, NextRowId(decks), [name |-> name])
    /\ last' = Call("add_deck", NextRowId(decks), FALSE, TRUE, JNull)
    /\ UNCHANGED <<cards, session>>

\* Model.rename_deck: UPDATE decks SET name WHERE id.
rename_deck(deck_id, new_name) ==
    /\ decks' = [d \in DOMAIN decks |-> IF d = deck_id THEN [name |-> new_name] ELSE decks[d]]
    /\ last' = Call("rename_deck", Target(decks, deck_id), FALSE, TRUE, JNull)
    /\ UNCHANGED <<cards, session>>

\* Mutant of CardsOfDeck: the DELETE FROM cards is left out.
CardsOfDeck_None(table, deck_id) == {}

\* DELETE FROM cards WHERE deck_id=?
CardsOfDeck(table, deck_id) == {c \in DOMAIN table : table[c].deck_id = deck_id}

\* Model.delete_deck: both DELETEs run in the transaction the first one opens
\* and are committed together.
delete_deck(deck_id) ==
    /\ cards' = Delete(cards, CardsOfDeck(cards, deck_id))
    /\ decks' = Delete(decks, {deck_id})
    /\ last' = Call("delete_deck", Target(decks, deck_id), CardsOfDeck(cards, deck_id) # {}, TRUE, JNull)
    /\ UNCHANGED session

\* The row INSERT INTO cards (deck_id, front, back, created_at) stores: the
\* counts take their column DEFAULT 0.  No PRAGMA foreign_keys is issued, so
\* sqlite does not check deck_id against table decks.
NewCard(deck_id, front, back) ==
    [deck_id |-> deck_id, front |-> front, back |-> back, correct_count |-> 0, seen_count |-> 0]

\* Model.add_card
add_card(deck_id, front, back) ==
    /\ NextRowId(cards) <= MaxCardId
    /\ cards' = Insert(cards, NextRowId(cards), NewCard(deck_id, front, back))
    /\ last' = Call("add_card", NextRowId(cards), FALSE, TRUE, JNull)
    /\ UNCHANGED <<decks, session>>

\* Mutant of Edited: the row is written anew, its counts back at their default.
Edited_Reset(row, front, back) ==
    [row EXCEPT !.front = front, !.back = back, !.correct_count = 0, !.seen_count = 0]

\* UPDATE cards SET front=?, back=? WHERE id=?
Edited(row, front, back) == [row EXCEPT !.front = front, !.back = back]

\* Model.update_card
update_card(card_id, front, back) ==
    /\ cards' = [c \in DOMAIN cards |-> IF c = card_id THEN Edited(cards[c], front, back) ELSE cards[c]]
    /\ last' = Call("update_card", Target(cards, card_id), cards' # cards, TRUE, JNull)
    /\ UNCHANGED <<decks, session>>

\* Model.delete_card
delete_card(card_id) ==
    /\ cards' = Delete(cards, {card_id})
    /\ last' = Call("delete_card", Target(cards, card_id), FALSE, TRUE, JNull)
    /\ UNCHANGED <<decks, session>>

\* Mutant of Counted: correct_count is raised whatever the answer.
Counted_AlwaysCorrect(row, correct) ==
    [row EXCEPT !.seen_count = @ + 1, !.correct_count = @ + 1]

\* Mutant of Counted: a correct answer raises correct_count alone.
Counted_CorrectOnly(row, correct) ==
    IF correct THEN [row EXCEPT !.correct_count = @ + 1]
    ELSE [row EXCEPT !.seen_count = @ + 1]

\* The SET clause of the two UPDATEs of record_result.
Counted(row, correct) ==
    [row EXCEPT !.seen_count = @ + 1,
                !.correct_count = IF correct THEN @ + 1 ELSE @]

\* Mutant of UpdateCounts: the UPDATE has no WHERE clause.
UpdateCounts_NoWhere(table, card_id, correct) ==
    [c \in DOMAIN table |-> Counted(table[c], correct)]

\* Mutant of UpdateCounts: the result is recorded twice.
UpdateCounts_Twice(table, card_id, correct) ==
    [c \in DOMAIN table |->
        IF c = card_id THEN Counted(Counted(table[c], correct), correct) ELSE table[c]]

\* The table after record_result's UPDATE ... WHERE id=?
UpdateCounts(table, card_id, correct) ==
    [c \in DOMAIN table |-> IF c = card_id THEN Counted(table[c], correct) ELSE table[c]]

\* Model.record_result.  The counts are capped at MaxSeen to keep the model finite.
record_result(card_id, correct) ==
    /\ card_id \in DOMAIN cards => cards[card_id].seen_count < MaxSeen
    /\ cards' = UpdateCounts(cards, card_id, correct)
    /\ last' = Call("record_result", Target(cards, card_id), correct, TRUE, JNull)
    /\ UNCHANGED <<decks, session>>

\* ------------------------------------------------------------------ export
\* Mutant of ExportRows: the rows come back by descending id.
ExportRows_Descending(table, deck_id) ==
    LET rows == SelectCards(table, deck_id)
    IN [i \in 1 .. Len(rows) |-> rows[Len(rows) + 1 - i]]

\* SELECT front, back, correct_count, seen_count, created_at FROM cards WHERE
\* deck_id=? has no ORDER BY.  Table cards has no index, so sqlite answers it
\* with a scan of the table in rowid order.
ExportRows(table, deck_id) == SelectCards(table, deck_id)

\* One element of the "cards" array (line 98).
ExportCard(r) ==
    JObj([front |-> ToJson(r.front), back |-> ToJson(r.back),
          correct_count |-> JNum(r.correct_count), seen_count |-> JNum(r.seen_count)])

\* The document json.dump writes (lines 98-101).
ExportPayload(deck_id) ==
    LET rows == ExportRows(cards, deck_id)
    IN JObj([name |-> ToJson(decks[deck_id].name),
             cards |-> JArr([i \in 1 .. Len(rows) |-> ExportCard(rows[i])])])

\* Model.export_deck_json: ValueError when the deck is absent, else the file
\* is written.  The store is only read.
export_deck_json(deck_id) ==
    /\ last' = IF deck_id \in DOMAIN decks
               THEN Call("export_deck_json", deck_id, FALSE, TRUE, ExportPayload(deck_id))
               ELSE Call("export_deck_json", 0, FALSE, FALSE, JNull)
    /\ UNCHANGED <<store, session>>

\* ------------------------------------------------------------------ import
\* What open() and json.load find at the path: a file that cannot be read, a
\* file that is not JSON, or a JSON document.
Unreadable == [t |-> "unreadable"]
NotJson == [t |-> "notjson"]

\* Documents a user hands to import_deck_json.
UserFiles ==
    { Unreadable,
      NotJson,
      JArr(<<>>),
      JObj([cards |-> JArr(<<JObj([front |-> JStr("a"), back |-> JStr("")])>>)]),
      JObj([name |-> JStr(""), cards |-> JArr(<<>>)]),
      JObj([name |-> JStr("n")]),
      JObj([name |-> JStr("n"),
            cards |-> JArr(<<JObj([front |-> JStr("a")]),
                             JObj([back |-> JStr("a"), correct_count |-> JNum(1),
                                   seen_count |-> JNum(2)])>>)]),
      JObj([name |-> JStr("n"), cards |-> JNum(1)]),
      JObj([name |-> JStr("n"), cards |-> JArr(<<JObj([front |-> JStr("a")]), JStr("a")>>)]) }

\* The file export_deck_json has just written, when the last call was that.
ExportedFiles == IF last.op = "export_deck_json" /\ last.ok THEN {last.out} ELSE {}

\* payload.get('name') or f'Deck {now}' (line 106): None and '' are falsy.
ImportName(payload) ==
    LET n == Get(payload, "name", JNull)
    IN IF n.t = "null" \/ n.v = "" THEN DefaultName ELSE n.v

\* The entries the loop of line 108 gets through before card.get raises: the
\* leading JSON objects of the array.
RECURSIVE Importable(_)
Importable(entries) ==
    IF entries = <<>> \/ Head(entries).t # "obj" THEN <<>>
    ELSE <<Head(entries)>> \o Importable(Tail(entries))

\* Mutant of AddCards: the entries are inserted last to first.
RECURSIVE AddCards_Reversed(_, _, _)
AddCards_Reversed(table, deck_id, entries) ==
    IF entries = <<>> THEN table
    ELSE LET n == Len(entries)
         IN AddCards_Reversed(Insert(table, NextRowId(table),
                                     NewCard(deck_id,
                                             FromJson(Get(entries[n], "front", JStr(""))),
                                             FromJson(Get(entries[n], "back", JStr("")))))
                              , deck_id, SubSeq(entries, 1, n - 1))

\* self.add_card(deck_id, card.get('front',''), card.get('back','')) for each
\* entry in turn, each with its own commit.
RECURSIVE AddCards(_, _, _)
AddCards(table, deck_id, entries) ==
    IF entries = <<>> THEN table
    ELSE AddCards(Insert(table, NextRowId(table),
                         NewCard(deck_id,
                                 FromJson(Get(Head(entries), "front", JStr(""))),
                                 FromJson(Get(Head(entries), "back", JStr("")))))
                  , deck_id, Tail(entries))

\* Model.import_deck_json on a file.  open, json.load and payload.get raise
\* before anything is written.  After that add_deck has committed the deck,
\* and every add_card that ran has committed its card, when a later step
\* raises: iterating a "cards" value that is not iterable, or card.get on an
\* entry that is not an object.
import_deck_json(file) ==
    IF file.t # "obj"
    THEN /\ last' = Call("import_deck_json", 0, file \in ExportedFiles, FALSE, JNull)
         /\ UNCHANGED <<store, session>>
    ELSE LET deck_id == NextRowId(decks)
             cs == Get(file, "cards", JArr(<<>>))
             entries == IF cs.t = "arr" THEN cs.v ELSE <<>>
             done == Importable(entries)
         IN /\ deck_id <= MaxDeckId
            /\ NextRowId(cards) + Len(done) - 1 <= MaxCardId
            /\ decks' = Insert(decks, deck_id, [name |-> ImportName(file)])
            /\ cards' = AddCards(cards, deck_id, done)
            /\ last' = Call("import_deck_json", deck_id, file \in ExportedFiles,
                            cs.t = "arr" /\ Len(done) = Len(entries), JNull)
            /\ UNCHANGED session

\* ------------------------------------------------------------------ study session
\* {'id': c[0], 'front': c[1], 'back': c[2]} (line 315)
Entry(row) == [id |-> row.id, front |-> row.front, back |-> row.back]

\* text or '(empty)': None and '' are falsy.
Shown(text) == IF text = Null \/ text = "" THEN "(empty)" ELSE text

\* StudyWindow.next_card on queue q: with q empty it reports the end and
\* destroys the window, leaving current, back_shown and the label as they
\* are; otherwise it pops the head of q and shows its front.
next_card(q) ==
    IF q = <<>>
    THEN /\ win' = "done"
         /\ queue' = q
         /\ UNCHANGED <<current, back_shown, label>>
    ELSE /\ win' = "open"
         /\ current' = <<Head(q)>>
         /\ queue' = Tail(q)
         /\ label' = Shown(Head(q).front)
         /\ back_shown' = FALSE

\* App.start_study with deck_id selected, and StudyWindow.__init__: nothing
\* happens for a deck without cards; otherwise the rows of cards_in_deck
\* become study_queue, the window copies it and calls next_card.  This is
\* the first window; start_other opens a second one.
start_study(deck_id) ==
    LET rows == cards_in_deck(deck_id)
        entries == [i \in 1 .. Len(rows) |-> Entry(rows[i])]
    IN /\ win = "none"
       /\ rows # <<>>
       /\ study_queue' = entries
       /\ next_card(entries)
       /\ marks' = 0
       /\ incorrect' = 0
       /\ corrects' = {}
       /\ cards0' = cards
       /\ last' = Call("start_study", deck_id, FALSE, TRUE, JNull)
       /\ UNCHANGED <<store, other>>

\* Mutant of flip: the flag is toggled and the label is left as it is.
flip_FlagOnly ==
    /\ win = "open"
    /\ current # <<>>
    /\ back_shown' = ~back_shown
    /\ last' = Call("flip", current[1].id, FALSE, TRUE, JNull)
    /\ UNCHANGED <<store, study_queue, win, queue, current, label, marks, incorrect, corrects, cards0, other>>

\* StudyWindow.flip, the command of the Flip button of an open window.
flip ==
    /\ win = "open"
    /\ IF current = <<>>
       THEN UNCHANGED <<label, back_shown>>
       ELSE /\ label' = IF back_shown THEN Shown(current[1].front) ELSE Shown(current[1].back)
            /\ back_shown' = ~back_shown
    /\ last' = Call("flip", IF current = <<>> THEN 0 ELSE current[1].id, FALSE, TRUE, JNull)
    /\ UNCHANGED <<store, study_queue, win, queue, current, marks, incorrect, corrects, cards0, other>>

\* Mutant of Requeued: the entry is re-queued whatever the answer.
Requeued_Always(q, entry, correct) == Append(q, entry)

\* Mutant of Requeued: a missed entry goes to the front of the queue.
Requeued_Front(q, entry, correct) == IF correct THEN q ELSE <<entry>> \o q

\* Mutant of Requeued: the entry is dropped whatever the answer.
Requeued_Never(q, entry, correct) == q

\* The queue mark hands to next_card (lines 365-370): the entry goes to the
\* back when the answer was not correct.
Requeued(q, entry, correct) == IF correct THEN q ELSE Append(q, entry)

\* StudyWindow.mark, the command of the Correct and Incorrect buttons of an
\* open window: record_result for the current entry, then the re-queue, then
\* next_card.  The calls are capped at MaxMarks to keep the model finite.
mark(correct) ==
    /\ win = "open"
    /\ marks < MaxMarks
    /\ IF current = <<>>
       THEN /\ last' = Call("mark", 0, correct, TRUE, JNull)
            /\ UNCHANGED <<store, session>>
       ELSE /\ cards' = UpdateCounts(cards, current[1].id, correct)
            /\ next_card(Requeued(queue, current[1], correct))
            /\ marks' = marks + 1
            /\ incorrect' = IF correct THEN incorrect ELSE incorrect + 1
            /\ corrects' = IF correct THEN corrects \cup {current[1].id} ELSE corrects
            /\ last' = Call("mark", current[1].id, correct, TRUE, JNull)
            /\ UNCHANGED <<decks, study_queue, cards0, other>>

\* The table as this connection reads it after the first UPDATE of
\* record_result (line 84) has run and the call has raised before its commit:
\* the change stays in the connection's open transaction.
Pending(table, card_id) ==
    [c \in DOMAIN table |->
        IF c = card_id THEN [table[c] EXCEPT !.seen_count = @ + 1] ELSE table[c]]

\* StudyWindow.mark when record_result raises (sqlite3.Error from an execute
\* or from commit): the exception leaves mark at line 364, before the
\* re-queue and next_card.  ran tells whether the first UPDATE had run.
mark_raises(correct) ==
    /\ win = "open"
    /\ marks < MaxMarks
    /\ current # <<>>
    /\ \E ran \in BOOLEAN : cards' = IF ran THEN Pending(cards, current[1].id) ELSE cards
    /\ marks' = marks + 1
    /\ last' = Call("mark", current[1].id, correct, FALSE, JNull)
    /\ UNCHANGED <<decks, study_queue, win, queue, current, back_shown, label, incorrect, corrects, cards0, other>>

\* A table with every count above MaxSeen brought down to MaxSeen.
Capped(table) ==
    [c \in DOMAIN table |->
        [table[c] EXCEPT !.seen_count = Min({@, MaxSeen}),
                         !.correct_count = Min({@, MaxSeen})]]

\* StudyWindow.mark in a session that may go on for ever.  The store's
\* counts are followed up to MaxSeen only and the counters marks and
\* incorrect stand still, so that such a session has finitely many states;
\* mark and next_card read none of them.
mark_live(correct) ==
    /\ win = "open"
    /\ current # <<>>
    /\ cards' = Capped(UpdateCounts(cards, current[1].id, correct))
    /\ next_card(Requeued(queue, current[1], correct))
    /\ corrects' = IF correct THEN corrects \cup {current[1].id} ELSE corrects
    /\ last' = Call("mark", current[1].id, correct, TRUE, JNull)
    /\ UNCHANGED <<decks, study_queue, marks, incorrect, cards0, other>>

\* The Correct button pressed while the entry of card e is the current one.
MarkCorrect(e) == mark_live(TRUE) /\ current # <<>> /\ current[1].id = e

\* The Close button of an open window: destroy.
close ==
    /\ win = "open"
    /\ win' = "closed"
    /\ last' = Call("close", 0, FALSE, TRUE, JNull)
    /\ UNCHANGED <<store, study_queue, queue, current, back_shown, label, marks, incorrect, corrects, cards0, other>>

\* ------------------------------------------------------------------ after completion
\* StudyWindow.flip called on the window object after next_card has destroyed
\* the window (no button is left to call it): with the entry next_card left
\* in current, front_lbl.config raises TclError on the destroyed label before
\* back_shown is assigned.
flip_done ==
    /\ win = "done"
    /\ last' = IF current = <<>> THEN Call("flip", 0, FALSE, TRUE, JNull)
               ELSE Call("flip", current[1].id, FALSE, FALSE, JNull)
    /\ UNCHANGED <<store, session>>

\* StudyWindow.mark called on the window object after next_card has destroyed
\* the window: with the entry next_card left in current, record_result
\* runs; then a correct answer finds the queue empty, so next_card reports
\* the end and destroys again; an incorrect one re-queues the entry, and
\* next_card pops it and raises TclError at front_lbl.config, before
\* back_shown is reset.
mark_done(correct) ==
    /\ win = "done"
    /\ marks < MaxMarks
    /\ IF current = <<>>
       THEN /\ last' = Call("mark", 0, correct, TRUE, JNull)
            /\ UNCHANGED <<store, session>>
       ELSE LET q == Requeued(queue, current[1], correct)
            IN /\ cards' = UpdateCounts(cards, current[1].id, correct)
               /\ IF q = <<>>
                  THEN queue' = q /\ current' = current
                  ELSE queue' = Tail(q) /\ current' = <<Head(q)>>
               /\ marks' = marks + 1
               /\ incorrect' = IF correct THEN incorrect ELSE incorrect + 1
               /\ corrects' = IF correct THEN corrects \cup {current[1].id} ELSE corrects
               /\ last' = Call("mark", current[1].id, correct, q = <<>>, JNull)
               /\ UNCHANGED <<decks, study_queue, win, back_shown, label, cards0, other>>

\* ------------------------------------------------------------------ a second window
\* No window.
NoWindow == [win |-> "none", queue |-> <<>>, current |-> <<>>, back_shown |-> FALSE, label |-> ""]

\* StudyWindow.next_card of window w on queue q.
Advanced(w, q) ==
    IF q = <<>>
    THEN [w EXCEPT !.win = "done", !.queue = q]
    ELSE [w EXCEPT !.win = "open", !.current = <<Head(q)>>, !.queue = Tail(q),
                   !.label = Shown(Head(q).front), !.back_shown = FALSE]

\* Mutant of start_other: the windows do not copy App.study_queue, the first
\* window's queue is the list the second start fills.
start_other_Shared(deck_id) ==
    LET rows == cards_in_deck(deck_id)
        entries == [i \in 1 .. Len(rows) |-> Entry(rows[i])]
    IN /\ other.win = "none"
       /\ rows # <<>>
       /\ study_queue' = entries
       /\ queue' = entries
       /\ other' = Advanced(NoWindow, entries)
       /\ last' = Call("start_other", deck_id, FALSE, TRUE, JNull)
       /\ UNCHANGED <<store, win, current, back_shown, label, marks, incorrect, corrects, cards0>>

\* App.start_study while the first window exists or not: the main window
\* stays active beside a StudyWindow (no grab), study_queue is bound to a
\* new list and the new window copies it.
start_other(deck_id) ==
    LET rows == cards_in_deck(deck_id)
        entries == [i \in 1 .. Len(rows) |-> Entry(rows[i])]
    IN /\ other.win = "none"
       /\ rows # <<>>
       /\ study_queue' = entries
       /\ other' = Advanced(NoWindow, entries)
       /\ last' = Call("start_other", deck_id, FALSE, TRUE, JNull)
       /\ UNCHANGED <<store, win, queue, current, back_shown, label, marks, incorrect, corrects, cards0>>

\* StudyWindow.flip of the second window.
flip_other ==
    /\ other.win = "open"
    /\ other' = IF other.current = <<>> THEN other
                ELSE [other EXCEPT !.label = IF other.back_shown THEN Shown(other.current[1].front)
                                             ELSE Shown(other.current[1].back),
                                   !.back_shown = ~other.back_shown]
    /\ last' = Call("flip_other", 0, FALSE, TRUE, JNull)
    /\ UNCHANGED <<store, study_queue, win, queue, current, back_shown, label, marks, incorrect, corrects, cards0>>

\* StudyWindow.mark of the second window, the counts followed up to MaxSeen.
mark_other(correct) ==
    /\ other.win = "open"
    /\ IF other.current = <<>>
       THEN UNCHANGED <<cards, other>>
       ELSE /\ cards' = Capped(UpdateCounts(cards, other.current[1].id, correct))
            /\ other' = Advanced(other, Requeued(other.queue, other.current[1], correct))
    /\ last' = Call("mark_other", 0, correct, TRUE, JNull)
    /\ UNCHANGED <<decks, study_queue, win, queue, current, back_shown, label, marks, incorrect, corrects, cards0>>

\* ------------------------------------------------------------------ specification
NoSession ==
    /\ study_queue = <<>>
    /\ win = "none"
    /\ queue = <<>>
    /\ current = <<>>
    /\ back_shown = FALSE
    /\ label = ""
    /\ marks = 0
    /\ incorrect = 0
    /\ corrects = {}
    /\ cards0 = <<>>
    /\ other = NoWindow

\* init_db on a fresh database file: both tables empty.
Init ==
    /\ decks = <<>>
    /\ cards = <<>>
    /\ last = NoCall
    /\ NoSession

Next ==
    \/ \E name \in DeckNames : add_deck(name)
    \/ \E d \in DeckIds, name \in DeckNames : rename_deck(d, name)
    \/ \E d \in DeckIds : delete_deck(d)
    \/ \E d \in DeckIds, s \in Sides : add_card(d, s[1], s[2])
    \/ \E c \in CardIds, s \in Sides : update_card(c, s[1], s[2])
    \/ \E c \in CardIds : delete_card(c)
    \/ \E c \in CardIds, correct \in BOOLEAN : record_result(c, correct)
    \/ \E d \in DeckIds : export_deck_json(d)
    \/ \E file \in UserFiles \cup ExportedFiles : import_deck_json(file)

Spec == Init /\ [][Next]_vars

\* A study session on its own: deck 1 holds one to MaxEntries cards, each with
\* some text and either no result yet or two results, one of them correct;
\* then only the session's window acts.
Fresh == [correct_count |-> 0, seen_count |-> 0]
Seen == [correct_count |-> 1, seen_count |-> 2]
StudyRows ==
    {[deck_id |-> 1, front |-> s[1], back |-> s[2],
      correct_count |-> k.correct_count, seen_count |-> k.seen_count] :
        s \in Sides, k \in {Fresh, Seen}}

InitStudy ==
    /\ decks = <<[name |-> "n"]>>
    /\ \E n \in 1 .. MaxEntries : cards \in [1 .. n -> StudyRows]
    /\ last = NoCall
    /\ NoSession

NextStudy ==
    \/ start_study(1)
    \/ flip
    \/ \E correct \in BOOLEAN : mark(correct)
    \/ close

SpecStudy == InitStudy /\ [][NextStudy]_vars

\* A study session whose writes can fail.
NextWrite ==
    \/ NextStudy
    \/ \E correct \in BOOLEAN : mark_raises(correct)

SpecWrite == InitStudy /\ [][NextWrite]_vars

\* A study session that is never closed.
NextLive ==
    \/ start_study(1)
    \/ flip
    \/ \E correct \in BOOLEAN : mark_live(correct)

\* mark keeps being called: the handler of a button that stays enabled.
SpecCalls ==
    /\ InitStudy
    /\ [][NextLive]_vars
    /\ WF_vars(\E correct \in BOOLEAN : mark_live(correct))

\* mark keeps being called, and no entry is marked incorrect for ever: an
\* entry that is the current one again and again is marked correct at last.
SpecLive ==
    /\ SpecCalls
    /\ \A e \in 1 .. MaxEntries : SF_vars(MarkCorrect(e))

\* A study session whose window object is used after the session is complete.
NextAfter ==
    \/ NextStudy
    \/ flip_done
    \/ \E correct \in BOOLEAN : mark_done(correct)

SpecAfter == InitStudy /\ [][NextAfter]_vars

\* Two study windows and the main window side by side: deck 1 holds one or
\* two cards without results and the first window studies it; while it is
\* open the main window edits the store and a second window studies.  The
\* sessions may go on for ever, so the counts are followed up to MaxSeen.
InitShared ==
    /\ decks = <<[name |-> "n"]>>
    /\ \E n \in 1 .. MaxCardId : cards \in [1 .. n -> {NewCard(1, "a", "")}]
    /\ last = NoCall
    /\ NoSession

SharedFile == JObj([cards |-> JArr(<<JObj([front |-> JStr("a"), back |-> JStr("")])>>)])

\* The first window is open.
Studying == win = "open"

NextShared ==
    \/ start_study(1)
    \/ Studying /\ add_card(MaxDeckId, "", "a")
    \/ Studying /\ update_card(1, "", "a")
    \/ Studying /\ \E c \in CardIds : delete_card(c)
    \/ Studying /\ delete_deck(1)
    \/ Studying /\ import_deck_json(SharedFile)
    \/ Studying /\ flip
    \/ Studying /\ \E correct \in BOOLEAN : mark_live(correct)
    \/ Studying /\ start_other(1)
    \/ Studying /\ flip_other
    \/ Studying /\ \E correct \in BOOLEAN : mark_other(correct)

SpecShared == InitShared /\ [][NextShared]_vars

\* ------------------------------------------------------------------ claims: the store
IsNew(c) == c \in DOMAIN cards' /\ c \notin DOMAIN cards
Kept(c) == c \in DOMAIN cards' /\ c \in DOMAIN cards

\* C1: in every reachable state every stored card's deck_id is the id of a
\* deck that exists in the store.
C1_NoOrphanCards == \A c \in DOMAIN cards : cards[c].deck_id \in DOMAIN decks

\* C2: record_result on an existing card adds 1 to its seen_count, adds 1 to
\* its correct_count exactly when correct is true, and changes nothing else:
\* no other field of the card, no other card, no deck.
C2_Step ==
    (last'.op = "record_result" /\ last'.id # 0) =>
        LET c == last'.id
        IN /\ c \in DOMAIN cards
           /\ DOMAIN cards' = DOMAIN cards
           /\ cards'[c].seen_count = cards[c].seen_count + 1
           /\ cards'[c].correct_count = cards[c].correct_count + (IF last'.flag THEN 1 ELSE 0)
           /\ cards'[c].deck_id = cards[c].deck_id
           /\ cards'[c].front = cards[c].front
           /\ cards'[c].back = cards[c].back
           /\ \A o \in DOMAIN cards \ {c} : cards'[o] = cards[o]
           /\ decks' = decks
C2_RecordResult == [][C2_Step]_vars

\* A second result has just been recorded for a card, this one correct and
\* the earlier one not, while another card is stored.
C2_Witness ==
    /\ last.op = "record_result" /\ last.id # 0 /\ last.flag
    /\ cards[last.id].seen_count = 2 /\ cards[last.id].correct_count = 1
    /\ Cardinality(DOMAIN cards) = 2

\* C3: every stored card has 0 <= correct_count <= seen_count; a card that a
\* step adds has both counts 0; a card that a step keeps has neither count
\* lowered by it.
C3_CountsOk ==
    \A c \in DOMAIN cards :
        0 <= cards[c].correct_count /\ cards[c].correct_count <= cards[c].seen_count
C3_Step ==
    \A c \in DOMAIN cards' :
        /\ IsNew(c) => cards'[c].correct_count = 0 /\ cards'[c].seen_count = 0
        /\ Kept(c) => /\ cards'[c].correct_count >= cards[c].correct_count
                      /\ cards'[c].seen_count >= cards[c].seen_count
C3_Counts == []C3_CountsOk /\ [][C3_Step]_vars

\* An import has just added a card, with counts 0, beside a card that has
\* been seen twice and answered correctly once.
C3_Witness ==
    /\ last.op = "import_deck_json" /\ last.ok /\ last.id # 0
    /\ \E c \in DOMAIN cards :
          /\ cards[c].deck_id = last.id
          /\ cards[c].seen_count = 0 /\ cards[c].correct_count = 0
    /\ \E c \in DOMAIN cards : cards[c].seen_count = 2 /\ cards[c].correct_count = 1

\* C4: delete_deck of an existing deck D removes, in the one step, deck D
\* and the cards whose deck_id is D and nothing else: cards_in_deck(D) is
\* empty and D is not in all_decks in the very next state, every other deck
\* and every card of another deck is as before.
C4_Step ==
    (last'.op = "delete_deck" /\ last'.id # 0) =>
        LET D == last'.id
        IN /\ D \in DOMAIN decks
           /\ DOMAIN decks' = DOMAIN decks \ {D}
           /\ \A d \in DOMAIN decks' : decks'[d] = decks[d]
           /\ DOMAIN cards' = {c \in DOMAIN cards : cards[c].deck_id # D}
           /\ \A c \in DOMAIN cards' : cards'[c] = cards[c]
           /\ SelectCards(cards', D) = <<>>
           /\ \A r \in all_decks' : r[1] # D
C4_DeleteDeck == [][C4_Step]_vars

\* A deck that had cards has just been deleted, and another deck and a card
\* of that other deck are still stored.
C4_Witness ==
    /\ last.op = "delete_deck" /\ last.id # 0 /\ last.flag
    /\ \E c \in DOMAIN cards : cards[c].deck_id \in DOMAIN decks

\* C5: no repository call other than record_result changes the
\* correct_count or seen_count of a card that it keeps; update_card changes
\* only front and back, and only of the card it is given.
C5_Step ==
    /\ last'.op \in {"add_deck", "rename_deck", "add_card", "update_card", "delete_card",
                     "delete_deck", "export_deck_json", "import_deck_json"} =>
           \A c \in DOMAIN cards' :
               Kept(c) => /\ cards'[c].correct_count = cards[c].correct_count
                          /\ cards'[c].seen_count = cards[c].seen_count
    /\ last'.op = "update_card" =>
           /\ decks' = decks
           /\ DOMAIN cards' = DOMAIN cards
           /\ \A c \in DOMAIN cards :
                  /\ cards'[c].deck_id = cards[c].deck_id
                  /\ cards'[c].correct_count = cards[c].correct_count
                  /\ cards'[c].seen_count = cards[c].seen_count
                  /\ c # last'.id => cards'[c] = cards[c]
C5_OnlyRecordResult == [][C5_Step]_vars

\* update_card has just changed the text of a card that has been seen twice
\* and answered correctly once.
C5_Witness ==
    /\ last.op = "update_card" /\ last.id # 0 /\ last.flag
    /\ cards[last.id].seen_count = 2 /\ cards[last.id].correct_count = 1

\* ------------------------------------------------------------------ claims: the session
N == Len(study_queue)

\* C6: a session started with N >= 1 entries is declared complete after
\* exactly N + (number of incorrect marks) calls of mark and not before,
\* with the queue empty; with no incorrect mark that is after exactly N calls.
C6_Completion ==
    /\ win = "done" => marks = N + incorrect /\ queue = <<>>
    /\ win = "done" /\ incorrect = 0 => marks = N
    /\ win = "open" => N >= 1 /\ marks < N + incorrect

\* A session of three entries is complete after two incorrect marks.
C6_Witness == win = "done" /\ N = 3 /\ incorrect = 2 /\ marks = 5

\* C7: mark(false) with queue q and current entry e makes the head of
\* q ++ [e] the current entry and the rest of q ++ [e] the queue, and shows
\* the front side with the flip flag reset.
C7_Step ==
    (last'.op = "mark" /\ ~last'.flag /\ marks' = marks + 1) =>
        LET s == queue \o current
        IN /\ current # <<>>
           /\ win' = "open"
           /\ current' = <<Head(s)>>
           /\ queue' = Tail(s)
           /\ back_shown' = FALSE
           /\ label' = Shown(Head(s).front)
C7_Requeue == [][C7_Step]_vars

\* An entry has just been marked incorrect with two entries waiting: the
\* queue again holds two, the marked one last.
C7_Witness ==
    /\ last.op = "mark" /\ ~last.flag /\ win = "open"
    /\ Len(queue) = 2 /\ queue[2].id = last.id /\ current[1].id # last.id

\* The entries the session holds: the current one, then the queue.
Held == current \o queue
HeldIds == {Held[i].id : i \in 1 .. Len(Held)}
StartIds == {study_queue[i].id : i \in 1 .. N}

\* C8: once an entry is marked correct it is neither the current entry nor
\* in the queue, and the session holds exactly the entries it started with
\* that are not yet marked correct, each once.
C8_Holds ==
    /\ HeldIds = StartIds \ corrects
    /\ Len(Held) = Cardinality(HeldIds)
    /\ \A i \in 1 .. Len(Held) : \E j \in 1 .. N : Held[i] = study_queue[j]
C8_Discarded == win \in {"open", "done"} => C8_Holds

\* C9: a session of one card marked incorrect K times and then correct is
\* complete after exactly K + 1 calls of mark, and has then raised the card's
\* seen_count by K + 1 and its correct_count by 1.
C9_OneCard ==
    N = 1 =>
        LET c == study_queue[1].id
        IN /\ win = "open" => marks = incorrect
           /\ win = "done" =>
                 /\ marks = incorrect + 1
                 /\ cards[c].seen_count = cards0[c].seen_count + incorrect + 1
                 /\ cards[c].correct_count = cards0[c].correct_count + 1

\* The session of one card that had been seen twice is complete after three
\* incorrect marks and a correct one.
C9_Witness ==
    /\ win = "done" /\ N = 1 /\ incorrect = 3 /\ marks = 4
    /\ cards0[1].seen_count = 2 /\ cards[1].seen_count = 6

\* ------------------------------------------------------------------ claims: export and import
\* The (front, back) pairs of the rows of a query, in order.
Pairs(rows) == [i \in 1 .. Len(rows) |-> <<rows[i].front, rows[i].back>>]

\* C10: import_deck_json of the file export_deck_json has just written for
\* a deck makes a new deck whose cards_in_deck has as many rows as the
\* original's, with the same (front, back) pairs in the same order, and every
\* count 0.
C10_Step ==
    (last.op = "export_deck_json" /\ last.ok /\ last'.op = "import_deck_json" /\ last'.flag) =>
        LET src == cards_in_deck(last.id)
            dst == SelectCards(cards', last'.id)
        IN /\ last'.ok
           /\ last'.id \notin DOMAIN decks
           /\ last'.id \in DOMAIN decks'
           /\ Len(dst) = Len(src)
           /\ Pairs(dst) = Pairs(src)
           /\ \A i \in 1 .. Len(dst) : dst[i].correct_count = 0 /\ dst[i].seen_count = 0
C10_RoundTrip == [][C10_Step]_vars

\* A field of a card entry of a payload, "" when the entry has no such field.
Field(entry, key) == IF key \in DOMAIN entry.v THEN FromJson(entry.v[key]) ELSE ""

\* The entries of the "cards" array of a payload, none when it has no "cards".
Entries(file) == IF "cards" \in DOMAIN file.v THEN file.v.cards.v ELSE <<>>

\* The cards a step has inserted, in the order of their ids.
Inserted == Ascending(DOMAIN cards' \ DOMAIN cards)

\* C11: a successful import_deck_json returns the id of a deck that did not
\* exist before the call; it inserts one card per payload entry, in payload
\* order, each in that deck, with the entry's front and back ("" for a
\* missing one) and both counts 0 whatever counts the payload carries; and
\* every deck and card that existed before the call is unchanged.
C11_Step ==
    \A file \in UserFiles \cup ExportedFiles :
        (import_deck_json(file) /\ last'.ok) =>
            LET D == last'.id
                es == Entries(file)
            IN /\ D \notin DOMAIN decks
               /\ DOMAIN decks' = DOMAIN decks \cup {D}
               /\ \A d \in DOMAIN decks : decks'[d] = decks[d]
               /\ DOMAIN cards \subseteq DOMAIN cards'
               /\ \A c \in DOMAIN cards : cards'[c] = cards[c]
               /\ Len(Inserted) = Len(es)
               /\ \A i \in 1 .. Len(es) :
                      cards'[Inserted[i]] =
                          [deck_id |-> D, front |-> Field(es[i], "front"),
                           back |-> Field(es[i], "back"),
                           correct_count |-> 0, seen_count |-> 0]
C11_Import == [][C11_Step]_vars

\* The payload of two entries, the first without a back and the second
\* without a front and with counts 1 and 2, has just been imported as deck 2
\* beside deck 1.
C11_Witness ==
    /\ last.op = "import_deck_json" /\ last.ok /\ last.id = 2
    /\ DOMAIN decks = {1, 2}
    /\ DOMAIN cards = {1, 2}
    /\ cards[1] = [deck_id |-> 2, front |-> "a", back |-> "", correct_count |-> 0, seen_count |-> 0]
    /\ cards[2] = [deck_id |-> 2, front |-> "", back |-> "a", correct_count |-> 0, seen_count |-> 0]

\* C12: a failing import_deck_json (unreadable file, file that is not JSON,
\* payload of the wrong shape) leaves every deck and card as it was.
C12_Step == (last'.op = "import_deck_json" /\ ~last'.ok) => (decks' = decks /\ cards' = cards)
C12_Atomic == [][C12_Step]_vars

\* C13: delete_deck and rename_deck on an id no deck has, and delete_card on
\* an id no card has, return normally and leave every deck and card as it was.
C13_Step ==
    (last'.op \in {"delete_deck", "rename_deck", "delete_card"} /\ last'.id = 0) =>
        (last'.ok /\ decks' = decks /\ cards' = cards)
C13_NoOp == [][C13_Step]_vars

\* Where no card is an orphan, the calls of C13 on a missing id change nothing.
C13_NoOrphans == [][C1_NoOrphanCards => C13_Step]_vars

\* The rows of the "cards" array of an exported document.
Exported(doc) ==
    [i \in 1 .. Len(doc.v.cards.v) |->
        LET e == doc.v.cards.v[i].v
        IN [front |-> FromJson(e.front), back |-> FromJson(e.back),
            correct_count |-> e.correct_count.v, seen_count |-> e.seen_count.v]]

\* What cards_in_deck returns without the id column.
Listed(rows) ==
    [i \in 1 .. Len(rows) |->
        [front |-> rows[i].front, back |-> rows[i].back,
         correct_count |-> rows[i].correct_count, seen_count |-> rows[i].seen_count]]

\* C14: export_deck_json writes the deck's cards in the order cards_in_deck
\* returns them, ascending card id, and changes no deck and no card.
C14_Step ==
    last'.op = "export_deck_json" =>
        /\ decks' = decks /\ cards' = cards
        /\ last'.ok => /\ Exported(last'.out) = Listed(cards_in_deck(last'.id))
                       /\ \A i \in 1 .. Len(cards_in_deck(last'.id)) - 1 :
                              cards_in_deck(last'.id)[i].id < cards_in_deck(last'.id)[i + 1].id
C15_Step ==
    (last'.op = "mark" /\ marks' = marks + 1) =>
        LET c == last'.id
        IN /\ current # <<>> /\ current[1].id = c
           /\ c \in DOMAIN cards
           /\ DOMAIN cards' = DOMAIN cards
           /\ \A o \in DOMAIN cards \ {c} : cards'[o] = cards[o]
           /\ decks' = decks
           /\ last'.ok =>
                 /\ cards'[c].seen_count = cards[c].seen_count + 1
                 /\ cards'[c].correct_count = cards[c].correct_count + (IF last'.flag THEN 1 ELSE 0)
           /\ ~last'.ok => queue' = queue /\ current' = current /\ win' = win
           /\ (queue' # queue \/ current' # current \/ win' # win) =>
                 cards'[c].seen_count = cards[c].seen_count + 1
C15_WriteFirst == [][C15_Step]_vars

\* The write of a mark has just failed with an entry waiting, after an entry
\* was marked incorrect and another correct.
C15_Witness ==
    /\ last.op = "mark" /\ ~last.ok /\ win = "open"
    /\ current # <<>> /\ current[1].id = last.id
    /\ queue # <<>> /\ incorrect >= 1 /\ corrects # {}

\* C16: flip changes the side shown and nothing else: the flag is toggled
\* and the label shows the side the flag names, so that two flips show the
\* front again; the queue, the current entry and every deck and card are as
\* before; with no current entry nothing changes.
C16_Step ==
    last'.op = "flip" =>
        /\ queue' = queue /\ current' = current /\ win' = win /\ study_queue' = study_queue
        /\ decks' = decks /\ cards' = cards
        /\ current = <<>> => back_shown' = back_shown /\ label' = label
        /\ current # <<>> =>
              /\ back_shown' = ~back_shown
              /\ label' = IF back_shown THEN Shown(current[1].front) ELSE Shown(current[1].back)
C16_Flip == [][C16_Step]_vars

\* A second flip has just brought back the front of the current entry, whose
\* two sides differ.
C16_Witness ==
    /\ last.op = "flip" /\ win = "open" /\ ~back_shown
    /\ label = Shown(current[1].front) /\ label # Shown(current[1].back)

\* The open session ends.
C17_Completes == (win = "open") ~> (win = "done")

\* A step completes the session exactly when it marks correct the last
\* entry not yet marked correct.
C17_Step ==
    /\ (win = "open" /\ win' = "done") =>
          /\ last'.op = "mark" /\ last'.flag
          /\ last'.id \notin corrects
          /\ corrects' = StartIds
    /\ (win = "open" /\ last'.op = "mark" /\ last'.flag /\ corrects' # corrects
        /\ corrects' = StartIds) => win' = "done"

\* C17: where mark keeps being called and every entry is marked correct at
\* some time when it is the current one, the session completes; it completes
\* at the mark that marks the last entry not yet marked correct as correct
\* and at no earlier one.  Where only "mark keeps being called" is assumed
\* (SpecCalls) C17_Completes does not hold: one entry is marked incorrect
\* for ever.
C17_Liveness ==
    /\ C17_Completes
    /\ [][C17_Step]_vars
    /\ [](win = "open" => corrects # StartIds)

\* A session of three entries, one of them marked correct, with the entry
\* that was marked incorrect waiting at the back of the queue.
C17_Witness ==
    /\ win = "open" /\ N = 3 /\ Cardinality(corrects) = 1
    /\ last.op = "mark" /\ ~last.flag /\ Len(queue) = 1 /\ queue[1].id = last.id

\* ------------------------------------------------------------------ claims: sessions side by side
\* The entries of the rows cards_in_deck returns, in their order.
EntriesOf(rows) == [i \in 1 .. Len(rows) |-> Entry(rows[i])]

\* C18: the queue, the current entry and the flip flag of a window change
\* only in steps of that window's own start, flip and mark: no call of the
\* repository and no start, flip or mark of the other window changes them;
\* and a start gives the window the entries of cards_in_deck in their order.
C18_Step ==
    /\ last'.op \notin {"start_study", "flip", "mark"} =>
          /\ queue' = queue /\ current' = current /\ back_shown' = back_shown
          /\ label' = label /\ win' = win
    /\ last'.op \notin {"start_other", "flip_other", "mark_other"} => other' = other
    /\ last'.op = "start_study" =>
          current' \o queue' = EntriesOf(cards_in_deck(last'.id)) /\ ~back_shown'
    /\ last'.op = "start_other" =>
          other'.current \o other'.queue = EntriesOf(cards_in_deck(last'.id)) /\ ~other'.back_shown
C18_Private == [][C18_Step]_vars

\* With both windows open and the first one showing the back of its current
\* entry, the card of that entry has just been deleted; the window holds
\* the entry still, and the second window holds another.
C18_Witness ==
    /\ win = "open" /\ other.win = "open"
    /\ last.op = "delete_card" /\ last.id # 0
    /\ current[1].id = last.id /\ back_shown
    /\ other.current # <<>> /\ other.current[1].id # last.id

\* C19: no step gives a new card an id that a card had when the session
\* started, and a mark of the session changes the counts only of a card of
\* its snapshot: a card that was stored under that id, in the deck studied,
\* when the session started.
C19_Step ==
    /\ win = "open" => \A c \in DOMAIN cards' : IsNew(c) => c \notin DOMAIN cards0
    /\ (last'.op = "mark" /\ cards' # cards) =>
          /\ last'.id \in DOMAIN cards0
          /\ cards[last'.id].deck_id = cards0[last'.id].deck_id
C19_NoReuse == [][C19_Step]_vars

\* The second half of C19 on its own.
C19_OwnCards ==
    [][(last'.op = "mark" /\ cards' # cards) =>
           /\ last'.id \in DOMAIN cards0
           /\ cards[last'.id].deck_id = cards0[last'.id].deck_id]_vars

\* ------------------------------------------------------------------ claims: after completion
\* A call of mark or flip on a complete session changes nothing.
C20_Step ==
    (win = "done" /\ last'.op \in {"mark", "flip"}) =>
        /\ decks' = decks /\ cards' = cards
        /\ queue' = queue /\ current' = current /\ back_shown' = back_shown
        /\ label' = label /\ win' = win

\* C20: a complete session has no current entry, and a later call of mark
\* or flip on it records no result and changes no card and nothing of the
\* session.
C20_Complete == [](win = "done" => current = <<>>) /\ [][C20_Step]_vars

\* The second half of C20 on its own.
C20_NoOp == [][C20_Step]_vars

====
